---------------------------- MODULE Spec2Model ----------------------------
(***************************************************************************)
(* Model of the Multimodal Dictionary Chatbot (src/src/*.py).              *)
(*                                                                         *)
(* Python str values are TLA+ strings; characters are strings of length 1. *)
(* The module works on the ASCII characters listed in Chars.               *)
(*                                                                         *)
(*   Spec     the interactive loop of main.py (main)                       *)
(*   SpecLib  single calls of the library functions (safety.py,            *)
(*            word_bot.py, image_bot.py, ai_clients.py) on inputs and      *)
(*            collaborator answers drawn from bounded sets                 *)
(***************************************************************************)
EXTENDS Integers, Sequences, FiniteSets, TLC

VARIABLES
    pc,          \* main: "input" | "line" | "loop" | "exited" | "crashed"; library: "call" | "return"
    fn,          \* the function running: "main" or the library function called
    arg,         \* main: the line read by input(); library: the str argument
    kb,          \* what wn.synsets will answer: [raises, synsets]
    img,         \* what the file system, PIL and the classifier will answer
    net,         \* ai_clients configuration, prompt file and remote answer
    ret,         \* library: the value returned (or the exception raised)
    frame,       \* locals of define_word / describe_image when they return
    out,         \* main: what was printed in this iteration of the loop
    invoked,     \* main: the handlers called in this iteration of the loop
    remoteCalls  \* number of requests.post calls made so far

vars == <<pc, fn, arg, kb, img, net, ret, frame, out, invoked, remoteCalls>>

----------------------------------------------------------------------------
(* Python str primitives                                                   *)

\* ASCII characters of the model, in code-point order (str comparison).
Chars == "\t\n !%'(),-./0123456789:ABCDEFGHIJKLMNOPQRSTUVWXYZ[]_abcdefghijklmnopqrstuvwxyz"

UpperLetters == "ABCDEFGHIJKLMNOPQRSTUVWXYZ"
LowerLetters == "abcdefghijklmnopqrstuvwxyz"
Digits == "0123456789"

Ch(s, i) == SubSeq(s, i, i)

InStr(c, s) == \E i \in 1..Len(s) : Ch(s, i) = c

IndexIn(c, s) == CHOOSE i \in 1..Len(s) : Ch(s, i) = c

\* ord(c), up to an order-preserving renumbering
Ord(c) == IndexIn(c, Chars)

IsUpperCh(c) == InStr(c, UpperLetters)
IsLowerCh(c) == InStr(c, LowerLetters)
IsAlphaCh(c) == IsUpperCh(c) \/ IsLowerCh(c)

\* str.isspace for one character
IsSpaceCh(c) == c \in {" ", "\t", "\n"}

\* the regular-expression class \w
IsWordCh(c) == IsAlphaCh(c) \/ InStr(c, Digits) \/ c = "_"

LowerCh(c) == IF IsUpperCh(c) THEN Ch(LowerLetters, IndexIn(c, UpperLetters)) ELSE c
UpperCh(c) == IF IsLowerCh(c) THEN Ch(UpperLetters, IndexIn(c, LowerLetters)) ELSE c

RECURSIVE Lower(_)
\* str.lower
Lower(s) == IF s = "" THEN "" ELSE LowerCh(Head(s)) \o Lower(Tail(s))

RECURSIVE Upper(_)
\* str.upper
Upper(s) == IF s = "" THEN "" ELSE UpperCh(Head(s)) \o Upper(Tail(s))

RECURSIVE LStrip(_)
LStrip(s) == IF s # "" /\ IsSpaceCh(Head(s)) THEN LStrip(Tail(s)) ELSE s

RECURSIVE RStrip(_)
RStrip(s) ==
    IF s # "" /\ IsSpaceCh(Ch(s, Len(s))) THEN RStrip(SubSeq(s, 1, Len(s) - 1)) ELSE s

\* str.strip()
Strip(s) == RStrip(LStrip(s))

StartsWith(s, p) == Len(s) >= Len(p) /\ SubSeq(s, 1, Len(p)) = p
EndsWith(s, p) == Len(s) >= Len(p) /\ SubSeq(s, Len(s) - Len(p) + 1, Len(s)) = p

RECURSIVE Replace(_, _, _)
\* str.replace(old, new) for a one-character old
Replace(s, old, new) ==
    IF s = "" THEN ""
    ELSE (IF Head(s) = old THEN new ELSE Head(s)) \o Replace(Tail(s), old, new)

RECURSIVE StrLess(_, _)
\* a < b for str: lexicographic by code point
StrLess(a, b) ==
    IF b = "" THEN FALSE
    ELSE IF a = "" THEN TRUE
    ELSE IF Head(a) = Head(b) THEN StrLess(Tail(a), Tail(b))
    ELSE Ord(Head(a)) < Ord(Head(b))

RECURSIVE Sorted(_)
\* sorted(S) for a set of str
Sorted(S) ==
    IF S = {} THEN <<>>
    ELSE LET m == CHOOSE x \in S : \A y \in S : y = x \/ StrLess(x, y)
         IN  <<m>> \o Sorted(S \ {m})

\* seq[:n]
Take(seq, n) == SubSeq(seq, 1, IF Len(seq) < n THEN Len(seq) ELSE n)

\* seq[a:b] with 0-based Python slice bounds, 0 <= a <= b
Slice(seq, a, b) == SubSeq(seq, a + 1, IF Len(seq) < b THEN Len(seq) ELSE b)

RECURSIVE Join(_, _)
\* sep.join(seq)
Join(sep, seq) ==
    IF seq = <<>> THEN ""
    ELSE IF Len(seq) = 1 THEN seq[1]
    ELSE seq[1] \o sep \o Join(sep, Tail(seq))

RECURSIVE SplitLines(_)
\* str.splitlines() with "\n" as the only line boundary
SplitLines(s) ==
    IF s = "" THEN <<>>
    ELSE IF InStr("\n", s)
         THEN LET i == CHOOSE k \in 1..Len(s) :
                           Ch(s, k) = "\n" /\ \A j \in 1..(k - 1) : Ch(s, j) # "\n"
              IN  <<SubSeq(s, 1, i - 1)>> \o SplitLines(SubSeq(s, i + 1, Len(s)))
         ELSE <<s>>

----------------------------------------------------------------------------
(* safety.py                                                               *)

BLOCKED_KEYWORDS ==
    << "weapon", "bomb", "explosive", "explicit", "porn", "pornography", "hate",
       "self-harm", "suicide", "kill", "murder", "drug", "narcotic", "terrorism",
       "racist", "slur" >>

\* the regular-expression assertion \b at the gap before s[p] (1-based)
WordBoundary(s, p) ==
    LET before == p > 1 /\ IsWordCh(Ch(s, p - 1))
        after  == p <= Len(s) /\ IsWordCh(Ch(s, p))
    IN  before # after

ReSearchWord_NoBoundary(keyword, s) ==
    \E i \in 1..(Len(s) - Len(keyword) + 1) : SubSeq(s, i, i + Len(keyword) - 1) = keyword

\* re.search(rf"\b{re.escape(keyword)}\b", s) is not None
ReSearchWord(keyword, s) ==
    \E i \in 1..(Len(s) - Len(keyword) + 1) :
        /\ SubSeq(s, i, i + Len(keyword) - 1) = keyword
        /\ WordBoundary(s, i)
        /\ WordBoundary(s, i + Len(keyword))

Lowered_CaseSensitive(text) == text

\* lowered = text.lower()
Lowered(text) == Lower(text)

is_safe_request(text) ==
    IF text = "" \/ Strip(text) = "" THEN TRUE
    ELSE ~ \E k \in 1..Len(BLOCKED_KEYWORDS) : ReSearchWord(BLOCKED_KEYWORDS[k], Lowered(text))

get_refusal_message ==
    "Sorry, I can't help with that request. Please enter a valid English word or image path."

----------------------------------------------------------------------------
(* word_bot.py                                                             *)

\* _POS_MAP.get(wn_pos, "unknown")
pos_readable(wn_pos) ==
    CASE wn_pos = "n" -> "noun"
      [] wn_pos = "v" -> "verb"
      [] wn_pos = "a" -> "adjective"
      [] wn_pos = "r" -> "adverb"
      [] wn_pos = "s" -> "adjective satellite"
      [] OTHER -> "unknown"

SynLimit == 3
ExampleLimit == 2

\* the names of synset.lemmas() that pass the filter of _collect_synonyms
KeptLemmas(synset, word) ==
    {synset.lemmas[i] : i \in {j \in 1..Len(synset.lemmas) :
                                   Lower(synset.lemmas[j]) # Lower(word)}}

collect_synonyms(synset, word, limit) ==
    Take(Sorted({Replace(name, "_", " ") : name \in KeptLemmas(synset, word)}), limit)

ScanExamples_Last(rest) ==
    LET nonEmpty == {i \in 1..Len(rest) : rest[i].examples # <<>>}
    IN  IF nonEmpty = {} THEN <<>>
        ELSE Take(rest[CHOOSE i \in nonEmpty : \A j \in nonEmpty : j <= i].examples, ExampleLimit)

RECURSIVE ScanExamples(_)
\* for ss in ...: examples = ss.examples()[:2]; if examples: break
ScanExamples(rest) ==
    IF rest = <<>> THEN <<>>
    ELSE IF Take(rest[1].examples, ExampleLimit) # <<>>
         THEN Take(rest[1].examples, ExampleLimit)
         ELSE ScanExamples(Tail(rest))

ExtendSynonyms_FirstOnly(synonyms, rest, word) ==
    IF rest = <<>> THEN synonyms
    ELSE synonyms \o Take(Sorted({Replace(name, "_", " ") : name \in KeptLemmas(rest[1], word)}), SynLimit)

RECURSIVE ExtendSynonyms(_, _, _)
\* for ss in ...: synonyms += _collect_synonyms(ss, word)
ExtendSynonyms(synonyms, rest, word) ==
    IF rest = <<>> THEN synonyms
    ELSE ExtendSynonyms(synonyms \o collect_synonyms(rest[1], word, SynLimit), Tail(rest), word)

RECURSIVE Unique(_, _)
\* the seen/unique loop: first occurrences, in order
Unique(synonyms, seen) ==
    IF synonyms = <<>> THEN <<>>
    ELSE IF synonyms[1] \in seen THEN Unique(Tail(synonyms), seen)
    ELSE <<synonyms[1]>> \o Unique(Tail(synonyms), seen \cup {synonyms[1]})

Capped_NoCap(unique) == unique

\* synonyms = unique[:3]
Capped(unique) == Take(unique, 3)

\* define_word, lines 91-96
define_word_examples(synsets) ==
    IF Take(synsets[1].examples, ExampleLimit) # <<>>
    THEN Take(synsets[1].examples, ExampleLimit)
    ELSE ScanExamples(Slice(synsets, 1, 4))

\* define_word, lines 99-110
define_word_synonyms(synsets, word) ==
    LET synonyms == collect_synonyms(synsets[1], word, SynLimit)
    IN  IF Len(synonyms) < 2
        THEN Capped(Unique(ExtendSynonyms(synonyms, Slice(synsets, 1, 4), word), {}))
        ELSE synonyms

NOT_FOUND_DEFINITION == "No entry found. Check spelling or try a simpler term."

\* word_bot._format_entry
word_format_entry(word, pos, pronunciation, definition, examples, synonyms) ==
    LET examples_text ==
            IF examples # <<>>
            THEN Join("\n", [i \in 1..Len(examples) |-> "  - " \o examples[i]])
            ELSE "  - (no example available)"
        synonyms_text == IF synonyms # <<>> THEN Join(", ", synonyms) ELSE "(none)"
    IN  "[word]\n  " \o word \o "\n"
        \o "[part_of_speech]\n  " \o pos \o "\n"
        \o "[pronunciation]\n  " \o pronunciation \o "\n"
        \o "[definition]\n  " \o definition \o "\n"
        \o "[examples]\n" \o examples_text \o "\n"
        \o "[synonyms]\n  " \o synonyms_text

format_not_found_Swapped(word) ==
    "[word]\n  " \o word \o "\n"
    \o "[part_of_speech]\n  N/A\n"
    \o "[pronunciation]\n  unknown\n"
    \o "[definition]\n  No entry found. Check spelling or try a simpler term.\n"
    \o "[examples]\n  - (none)\n"
    \o "[synonyms]\n  (none)"

\* _format_not_found
format_not_found(word) ==
    "[word]\n  " \o word \o "\n"
    \o "[part_of_speech]\n  unknown\n"
    \o "[pronunciation]\n  N/A\n"
    \o "[definition]\n  No entry found. Check spelling or try a simpler term.\n"
    \o "[examples]\n  - (none)\n"
    \o "[synonyms]\n  (none)"

\* word = word.strip().lower()
NormalizeWord(word) == Lower(Strip(word))

\* define_word, lines 75-82: the two early returns
NotFound(word, synsets) == word = "" \/ synsets = <<>>

\* the locals of define_word where it returns (the query is skipped for an empty word)
define_word_locals(word_in, synsets) ==
    LET word == NormalizeWord(word_in)
    IN  IF NotFound(word, synsets)
        THEN [found |-> FALSE, word |-> word]
        ELSE [found |-> TRUE,
              word |-> word,
              pos |-> pos_readable(synsets[1].pos),
              pronunciation |-> "N/A",
              definition |-> synsets[1].definition,
              examples |-> define_word_examples(synsets),
              synonyms |-> define_word_synonyms(synsets, word)]

\* the str define_word returns
define_word(word_in, synsets) ==
    LET f == define_word_locals(word_in, synsets)
    IN  IF ~f.found
        THEN format_not_found(f.word)
        ELSE word_format_entry(f.word, f.pos, f.pronunciation, f.definition,
                               f.examples, f.synonyms)

\* define_word_json, lines 138-143
json_examples(synsets) ==
    IF Take(synsets[1].examples, ExampleLimit) # <<>>
    THEN Take(synsets[1].examples, ExampleLimit)
    ELSE ScanExamples(Slice(synsets, 1, 4))

\* define_word_json, lines 145-155
json_synonyms(synsets, word) ==
    LET synonyms == collect_synonyms(synsets[1], word, SynLimit)
    IN  IF Len(synonyms) < 2
        THEN Take(Unique(ExtendSynonyms(synonyms, Slice(synsets, 1, 4), word), {}), 3)
        ELSE synonyms

\* the dict define_word_json returns
define_word_json(word_in, synsets) ==
    LET word == NormalizeWord(word_in)
    IN  IF synsets = <<>>
        THEN [word |-> word,
              part_of_speech |-> "unknown",
              pronunciation |-> "N/A",
              definition |-> "No entry found. Check spelling or try a simpler term.",
              examples |-> <<>>,
              synonyms |-> <<>>]
        ELSE [word |-> word,
              part_of_speech |-> pos_readable(synsets[1].pos),
              pronunciation |-> "N/A",
              definition |-> synsets[1].definition,
              examples |-> json_examples(synsets),
              synonyms |-> json_synonyms(synsets, word)]

----------------------------------------------------------------------------
(* image_bot.py                                                            *)

\* _LABEL_INFO; the dash U+2014 of eight entries is written "--" here
LABEL_INFO ==
    [ label \in { "tabby", "tiger cat", "Siamese cat", "Egyptian cat", "Persian cat",
                  "golden retriever", "Labrador retriever", "German shepherd", "cup",
                  "coffee mug", "wooden spoon", "chair", "folding chair",
                  "rocking chair", "desk", "laptop", "cellular telephone", "monitor" } |->
      CASE label = "tabby" ->
             << "A tabby cat with distinctive striped or spotted fur markings.",
                "A domestic cat pattern; one of the most common coat types in household cats." >>
        [] label = "tiger cat" ->
             << "A tiger cat (mackerel tabby) with bold striped markings.",
                "A domestic cat breed known for tiger-like stripes on its coat." >>
        [] label = "Siamese cat" ->
             << "A Siamese cat with a light body and dark points on the ears, face, and paws.",
                "A domestic cat breed known for its distinct coloration and vocal behavior." >>
        [] label = "Egyptian cat" ->
             << "An Egyptian Mau cat with a spotted coat and elegant build.",
                "One of the oldest domesticated cat breeds, originating from Egypt." >>
        [] label = "Persian cat" ->
             << "A Persian cat with long, luxurious fur and a flat face.",
                "A popular domestic breed known for its gentle temperament and long coat." >>
        [] label = "golden retriever" ->
             << "A golden retriever with a friendly expression and golden coat.",
                "A popular dog breed valued for its intelligence and gentle nature." >>
        [] label = "Labrador retriever" ->
             << "A Labrador retriever with a short, dense coat.",
                "One of the most popular dog breeds, often used as service and guide dogs." >>
        [] label = "German shepherd" ->
             << "A German shepherd dog with an alert posture.",
                "A working dog breed known for its intelligence, loyalty, and versatility." >>
        [] label = "cup" ->
             << "A cup -- a small, open container used for drinking.",
                "A common household item for holding beverages, typically with a handle." >>
        [] label = "coffee mug" ->
             << "A coffee mug -- a sturdy cup designed for hot beverages.",
                "A household drinkware item, larger than a teacup, often ceramic." >>
        [] label = "wooden spoon" ->
             << "A wooden spoon used for cooking and stirring.",
                "A kitchen utensil carved from wood, commonly used when cooking." >>
        [] label = "chair" ->
             << "A chair -- a piece of furniture for sitting.",
                "A common furniture item with a seat, back, and often four legs." >>
        [] label = "folding chair" ->
             << "A folding chair -- a portable, collapsible seating option.",
                "A lightweight chair designed to fold flat for easy storage and transport." >>
        [] label = "rocking chair" ->
             << "A rocking chair with curved legs that allows back-and-forth motion.",
                "A type of chair often associated with relaxation and front porches." >>
        [] label = "desk" ->
             << "A desk -- a flat-surfaced table used for reading, writing, or working.",
                "A furniture piece commonly found in offices and study areas." >>
        [] label = "laptop" ->
             << "A laptop computer -- a portable personal computer.",
                "An electronic device used for computing, communication, and entertainment." >>
        [] label = "cellular telephone" ->
             << "A mobile phone -- a wireless communication device.",
                "A widely-used electronic device for calls, messaging, and internet access." >>
        [] label = "monitor" ->
             << "A computer monitor -- an electronic display screen.",
                "An output device used to visually display information from a computer." >> ]

RECURSIVE TitleFrom(_, _)
TitleFrom(s, prevCased) ==
    IF s = "" THEN ""
    ELSE LET c == Head(s)
         IN  (IF IsAlphaCh(c) THEN (IF prevCased THEN LowerCh(c) ELSE UpperCh(c)) ELSE c)
             \o TitleFrom(Tail(s), IsAlphaCh(c))

\* str.title()
Title(s) == TitleFrom(s, FALSE)

\* label in _LABEL_INFO
InLabelInfo(label) == label \in DOMAIN LABEL_INFO

get_label_info(label) ==
    IF InLabelInfo(label) THEN LABEL_INFO[label]
    ELSE << "An image likely depicting: " \o label \o ".",
            "'" \o Title(label) \o "' is a concept or object recognized by the image "
               \o "classifier. Consult a reference for more context." >>

\* A probability p is the integer 100000 * p; the threshold 0.15 of describe_image
LOW_CONFIDENCE == 15000

RECURSIVE NatToStr(_)
NatToStr(n) == IF n < 10 THEN Ch(Digits, n + 1) ELSE NatToStr(n \div 10) \o Ch(Digits, (n % 10) + 1)

RECURSIVE Pow2Mod(_, _)
\* 2^k modulo m
Pow2Mod(k, m) == IF k = 0 THEN 1 % m ELSE (2 * Pow2Mod(k - 1, m)) % m

RECURSIVE BinadeShift(_, _)
\* the least E >= k with c * 2^E >= 100000: the double c/100000 lies in
\* [2^-E, 2^(1-E))
BinadeShift(c, k) == IF c * (2 ^ k) >= 100000 THEN k ELSE BinadeShift(c, k + 1)

\* For c = 5 (mod 10), c > 0: the sign of (exact tie c/1000) - (the double that
\* is formatted). The formatted double is fl(fl(c/100000) * 100), IEEE-754 binary64
\* with round-to-nearest-even. With E = BinadeShift(c, 0) and n the 53-bit
\* significand of fl(c/100000): n = (c * 2^(47+E) - r) / 3125 for the signed
\* remainder r, so n = -29 * r (mod 64) as 29 * 3125 = 1 (mod 64); the product
\* drops the low j bits of 25 * n, a signed remainder m; the tie minus the double
\* is (r + 125 * m) / 125 units in the last place of the product.
TieError(c) ==
    LET E == BinadeShift(c, 0)
        rem == ((c % 3125) * Pow2Mod(47 + E, 3125)) % 3125
        r == IF 2 * rem < 3125 THEN rem ELSE rem - 3125
        n64 == (-(r * 29)) % 64
        j == IF c * (2 ^ E) >= 128000 THEN 5 ELSE 4
        low == (25 * n64) % (2 ^ j)
        odd == ((25 * n64) \div (2 ^ j)) % 2 = 1
        half == 2 ^ (j - 1)
        m == IF low < half \/ (low = half /\ ~odd) THEN low ELSE low - (2 ^ j)
    IN  r + 125 * m

\* f"{confidence:.2%}": the double times 100, printed with two decimals. Off a
\* tie the nearest hundredth of a percent of c/100000; on a tie the side on which
\* the double lies (half to even when the double is the tie itself)
format_percent(confidence) ==
    LET q == confidence \div 10
        r == confidence % 10
        up == IF r # 5 THEN r > 5
              ELSE IF TieError(confidence) # 0 THEN TieError(confidence) < 0
              ELSE q % 2 = 1
        h == IF up THEN q + 1 ELSE q
        frac == h % 100
    IN  NatToStr(h \div 100) \o "." \o (IF frac < 10 THEN "0" ELSE "") \o NatToStr(frac) \o "%"

\* image_bot._format_entry
image_format_entry(label, description, meaning, confidence) ==
    "[label]\n  " \o label \o "\n"
    \o "[description]\n  " \o description \o "\n"
    \o "[meaning]\n  " \o meaning \o "\n"
    \o "[confidence]\n  " \o format_percent(confidence)

format_error(message) ==
    "[label]\n  unknown\n"
    \o "[description]\n  " \o message \o "\n"
    \o "[meaning]\n  N/A"

VALID_EXTENSIONS == {".jpg", ".jpeg", ".png", ".bmp", ".gif", ".webp"}

\* the last index of character c in s, 0 when absent (str.rfind + 1)
RFind(s, c) ==
    IF InStr(c, s)
    THEN CHOOSE i \in 1..Len(s) : Ch(s, i) = c /\ \A j \in (i + 1)..Len(s) : Ch(s, j) # c
    ELSE 0

\* os.path.splitext(p)[1] (posixpath): the last dot of the last component, unless
\* only dots precede it there
SplitExt(p) ==
    LET sep == RFind(p, "/")
        dot == RFind(p, ".")
    IN  IF dot > sep /\ \E k \in (sep + 1)..(dot - 1) : Ch(p, k) # "."
        THEN SubSeq(p, dot, Len(p))
        ELSE ""

\* _labels = weights.meta["categories"]: an excerpt of the ImageNet class names
LABELS ==
    << "goldfish", "great white shark", "tabby", "Siamese cat", "jack-o'-lantern", "cup" >>

IsLowConfidence_Inclusive(confidence) == confidence <= LOW_CONFIDENCE

\* confidence < 0.15
IsLowConfidence(confidence) == confidence < LOW_CONFIDENCE

\* describe_image, lines 205-219: the locals after the threshold test
classify_locals(pred_idx, confidence) ==
    LET label0 == IF LABELS # <<>> /\ 0 <= pred_idx /\ pred_idx < Len(LABELS)
                  THEN LABELS[pred_idx + 1]
                  ELSE "unknown object"
    IN  IF IsLowConfidence(confidence)
        THEN [label |-> "unknown object",
              description |-> "The classifier could not identify this image with high confidence.",
              meaning |-> "Try uploading a clearer photo or a different angle.",
              confidence |-> confidence]
        ELSE [label |-> label0,
              description |-> get_label_info(label0)[1],
              meaning |-> get_label_info(label0)[2],
              confidence |-> confidence]

\* The locals of describe_image where it returns. e is the environment's answer:
\* isfile (os.path.isfile), open and infer ("ok" or the exception's message),
\* pred_idx and confidence (the classifier's top-1).
describe_image_locals(image_path, e) ==
    IF ~e.isfile
    THEN [path |-> "missing", message |-> "File not found: " \o image_path]
    ELSE IF Lower(SplitExt(image_path)) \notin VALID_EXTENSIONS
    THEN [path |-> "extension",
          message |-> "Unsupported image format '" \o SplitExt(image_path)
                      \o "'. Please use JPG or PNG."]
    ELSE IF e.open # "ok"
    THEN [path |-> "decode", message |-> "Could not read image: " \o e.open]
    ELSE IF e.infer # "ok"
    THEN [path |-> "inference", message |-> "Classification error: " \o e.infer]
    ELSE [path |-> "entry", entry |-> classify_locals(e.pred_idx, e.confidence)]

ErrorText_WithConfidence(message) == format_error(message) \o "\n[confidence]\n  N/A"

\* return _format_error(...)
ErrorText(message) == format_error(message)

\* the str describe_image returns
describe_image(image_path, e) ==
    LET f == describe_image_locals(image_path, e)
    IN  IF f.path = "entry"
        THEN image_format_entry(f.entry.label, f.entry.description, f.entry.meaning,
                                f.entry.confidence)
        ELSE ErrorText(f.message)

\* line.strip("[]")
RECURSIVE StripBrackets(_)
StripBrackets(s) ==
    IF s # "" /\ Head(s) \in {"[", "]"} THEN StripBrackets(Tail(s))
    ELSE IF s # "" /\ Ch(s, Len(s)) \in {"[", "]"} THEN StripBrackets(SubSeq(s, 1, Len(s) - 1))
    ELSE s

IsSectionLine_AnyBracket(line) == InStr("[", line)

\* line.startswith("[") and line.endswith("]")
IsSectionLine(line) == StartsWith(line, "[") /\ EndsWith(line, "]")

\* dict assignment d[k] = v
DictSet(d, k, v) == [x \in (DOMAIN d) \cup {k} |-> IF x = k THEN v ELSE d[x]]

RECURSIVE ParseLines(_, _, _)
\* the loop of describe_image_json; current_key = "" stands for None and for ""
ParseLines(lines, result, current_key) ==
    IF lines = <<>> THEN result
    ELSE LET line == lines[1]
         IN  IF IsSectionLine(line)
             THEN ParseLines(Tail(lines), DictSet(result, StripBrackets(line), ""),
                             StripBrackets(line))
             ELSE IF current_key # ""
             THEN ParseLines(Tail(lines),
                             DictSet(result, current_key,
                                     Strip(result[current_key] \o " " \o Strip(line))),
                             current_key)
             ELSE ParseLines(Tail(lines), result, current_key)

\* describe_image_json applied to the text of an entry
parse_entry(text) == ParseLines(SplitLines(text), <<>>, "")

describe_image_json(image_path, e) == parse_entry(describe_image(image_path, e))

----------------------------------------------------------------------------
(* ai_clients.py                                                           *)

\* c is the configuration read from the environment at import
is_online_mode(c) == c.USE_ONLINE_AI /\ c.API_KEY /\ c.API_ENDPOINT

\* _load_prompt raises: it catches FileNotFoundError only, and the helpers call it
\* outside their try
PromptRaises(c) == c.prompt \in {"UnicodeDecodeError", "IsADirectoryError"}

\* whether define_word_online / describe_image_online reach requests.post: online
\* mode, a non-empty prompt, requests importable and (for an image) the file read
PostsRequest(c, readable) ==
    is_online_mode(c) /\ c.prompt = "ok" /\ c.remote # "ImportError" /\ readable

\* how the helper ends: "raise" (the exception of _load_prompt), "None", "dict",
\* or "json_value" when the answer's content is valid JSON that is not an object
\* (json.loads gives a list, a str, a number, a bool or None, returned as it is)
online_result(c, readable) ==
    IF ~is_online_mode(c) THEN "None"
    ELSE IF PromptRaises(c) THEN "raise"
    ELSE IF ~PostsRequest(c, readable) THEN "None"
    ELSE IF c.remote = "ok" THEN "dict"
    ELSE IF c.remote = "not_object" THEN "json_value"
    ELSE "None"

\* the exception that leaves the helper, "" when none does
online_exception(c) == IF is_online_mode(c) /\ PromptRaises(c) THEN c.prompt ELSE ""

----------------------------------------------------------------------------
(* Inputs and collaborator answers                                         *)

\* longest list of senses wn.synsets answers in SpecLib
MaxSenses == 5

\* longest list of senses wn.synsets answers in Spec
MaxCliSenses == 2

\* longest text put before and after a word in the texts given to the safety gate
MaxAffix == 1

\* Synsets as the resolver reads them: pos(), definition(), examples(), and the
\* names of lemmas().
SensePool ==
    { [pos |-> "n", definition |-> "a pet", examples |-> <<>>,
       lemmas |-> <<"dog">>],
      [pos |-> "v", definition |-> "go after", examples |-> <<"dog the steps">>,
       lemmas |-> <<"Dog", "hound", "hot_dog">>],
      [pos |-> "s", definition |-> "[slang] a chap ",
       examples |-> <<"e one", "[e two]", "e three ">>,
       lemmas |-> <<"pooch", "cur", "hound", "canine">>],
      [pos |-> "x", definition |-> "", examples |-> <<>>,
       lemmas |-> <<"canine", "DOG", "hot_dog">>] }

SynsetLists(n) == UNION {[1..k -> SensePool] : k \in 0..n}

Words == {" Dog ", "hot dog", "", "  "}

NoKb == [raises |-> FALSE, synsets |-> <<>>]

\* wn.synsets(word): any list of senses, whatever the word, or an exception
\* (LookupError when the corpus is not installed)
KbAnswers(word, n) ==
    {[raises |-> FALSE, synsets |-> l] : l \in SynsetLists(n)}
    \cup {[raises |-> TRUE, synsets |-> <<>>]}

AffixChars == {"s", " ", "-"}

RECURSIVE Affixes(_)
Affixes(n) ==
    IF n = 0 THEN {""}
    ELSE Affixes(n - 1) \cup {a \o c : a \in Affixes(n - 1), c \in AffixChars}

BlockedSet == {BLOCKED_KEYWORDS[k] : k \in 1..Len(BLOCKED_KEYWORDS)}

Cores == BlockedSet \cup {"skilled", "therapist", "drug_store", "harm", ""}

CaseForms(w) == {w, Upper(w), Title(w)}

Texts == {a \o f \o b : a \in Affixes(MaxAffix), b \in Affixes(MaxAffix),
                        f \in UNION {CaseForms(w) : w \in Cores}}

Paths == {"cat.jpg", "cat.JPG", "dir.d/cat", "cat.txt", ".png", "a/b.jpeg"}

\* top-1 probabilities, as multiples of 1/100000; 25 and 14995 sit on a rounding
\* tie of format_percent, the first printed above it ("0.03%") and the second
\* below ("14.99%")
Confidences == {25, 100, 10000, 14994, 14995, 14999, 15000, 15001, 82000, 90004, 100000}

NoImg == [isfile |-> FALSE, open |-> "ok", infer |-> "ok", pred_idx |-> 0, confidence |-> 100]

ImgEnvs ==
    {NoImg}
    \cup {[NoImg EXCEPT !.isfile = TRUE, !.open = "cannot identify image file"]}
    \cup {[NoImg EXCEPT !.isfile = TRUE, !.infer = "[Errno 12] Cannot allocate memory"]}
    \cup {[NoImg EXCEPT !.isfile = TRUE, !.pred_idx = i, !.confidence = c] :
             i \in 0..(Len(LABELS) - 1), c \in Confidences}

NoNet == [USE_ONLINE_AI |-> FALSE, API_KEY |-> FALSE, API_ENDPOINT |-> FALSE,
          prompt |-> "ok", remote |-> "ok"]

\* the environment variables set or not; the prompt file: read ("ok"), missing,
\* empty, or failing to be read with the exception named; the outcome of the
\* request: requests not installed ("ImportError"), a failure of the POST, an
\* answer that is not JSON, JSON that is not an object, or an object ("ok")
NetEnvs ==
    [USE_ONLINE_AI : BOOLEAN, API_KEY : BOOLEAN, API_ENDPOINT : BOOLEAN,
     prompt : {"ok", "missing", "empty", "UnicodeDecodeError", "IsADirectoryError"},
     remote : {"ok", "not_object", "http_error", "bad_json", "timeout", "ImportError"}]

NetConfigs == {c \in NetEnvs : c.prompt = "ok" /\ c.remote = "ok"}

NoRet == [kind |-> "pending", val |-> ""]
NoFrame == [fn |-> "none"]

----------------------------------------------------------------------------
(* SpecLib: one call of a library function                                 *)

InitLib ==
    /\ pc = "call"
    /\ ret = NoRet
    /\ frame = NoFrame
    /\ out = <<>>
    /\ invoked = {}
    /\ remoteCalls = 0
    /\ \/ /\ fn = "is_safe_request"
          /\ arg \in Texts
          /\ kb = NoKb /\ img = NoImg /\ net = NoNet
       \/ /\ fn \in {"define_word", "define_word_json"}
          /\ arg \in Words
          /\ kb \in KbAnswers(arg, MaxSenses)
          /\ img = NoImg /\ net = NoNet
       \/ /\ fn \in {"describe_image", "describe_image_json"}
          /\ arg \in Paths
          /\ img \in ImgEnvs
          /\ kb = NoKb /\ net = NoNet
       \/ /\ fn = "define_word_online"
          /\ arg \in {"dog"}
          /\ net \in NetEnvs
          /\ kb = NoKb /\ img = NoImg
       \/ /\ fn = "describe_image_online"
          /\ arg \in {"cat.jpg"}
          /\ net \in NetEnvs
          /\ img \in {NoImg, [NoImg EXCEPT !.isfile = TRUE]}
          /\ kb = NoKb

Return(kind, val) ==
    /\ pc' = "return"
    /\ ret' = [kind |-> kind, val |-> val]

CallIsSafeRequest ==
    /\ pc = "call" /\ fn = "is_safe_request"
    /\ Return("bool", is_safe_request(arg))
    /\ UNCHANGED <<fn, arg, kb, img, net, frame, out, invoked, remoteCalls>>

CallDefineWord ==
    /\ pc = "call" /\ fn = "define_word"
    /\ IF kb.raises /\ NormalizeWord(arg) # ""
       THEN Return("raise", "LookupError") /\ frame' = NoFrame
       ELSE /\ Return("str", define_word(arg, kb.synsets))
            /\ frame' = define_word_locals(arg, kb.synsets)
    /\ UNCHANGED <<fn, arg, kb, img, net, out, invoked, remoteCalls>>

CallDefineWordJson ==
    /\ pc = "call" /\ fn = "define_word_json"
    /\ IF kb.raises
       THEN Return("raise", "LookupError")
       ELSE Return("dict", define_word_json(arg, kb.synsets))
    /\ UNCHANGED <<fn, arg, kb, img, net, frame, out, invoked, remoteCalls>>

CallDescribeImage ==
    /\ pc = "call" /\ fn = "describe_image"
    /\ Return("str", describe_image(arg, img))
    /\ frame' = describe_image_locals(arg, img)
    /\ UNCHANGED <<fn, arg, kb, img, net, out, invoked, remoteCalls>>

CallDescribeImageJson ==
    /\ pc = "call" /\ fn = "describe_image_json"
    /\ Return("dict", describe_image_json(arg, img))
    /\ frame' = describe_image_locals(arg, img)
    /\ UNCHANGED <<fn, arg, kb, img, net, out, invoked, remoteCalls>>

CallDefineWordOnline ==
    /\ pc = "call" /\ fn = "define_word_online"
    /\ Return(online_result(net, TRUE), online_exception(net))
    /\ remoteCalls' = remoteCalls + (IF PostsRequest(net, TRUE) THEN 1 ELSE 0)
    /\ UNCHANGED <<fn, arg, kb, img, net, frame, out, invoked>>

CallDescribeImageOnline ==
    /\ pc = "call" /\ fn = "describe_image_online"
    /\ Return(online_result(net, img.isfile), online_exception(net))
    /\ remoteCalls' = remoteCalls + (IF PostsRequest(net, img.isfile) THEN 1 ELSE 0)
    /\ UNCHANGED <<fn, arg, kb, img, net, frame, out, invoked>>

NextLib ==
    \/ CallIsSafeRequest
    \/ CallDefineWord
    \/ CallDefineWordJson
    \/ CallDescribeImage
    \/ CallDescribeImageJson
    \/ CallDefineWordOnline
    \/ CallDescribeImageOnline

SpecLib == InitLib /\ [][NextLib]_vars

----------------------------------------------------------------------------
(* main.py: the interactive loop                                           *)

\* the rows inside the frames of WELCOME and HELP_TEXT, without the frame (which is
\* not ASCII) and its padding; the arrow is written "->" and the em dash "--"
WELCOME == "Multimodal Dictionary Chatbot\nWords & Pictures -> Meanings\nType 'help' for a list of commands."
HELP_TEXT ==
    "Multimodal Dictionary Chatbot -- Commands\n"
    \o "define <word>      Look up a word definition\n"
    \o "describe <image>   Describe an image (JPG/PNG)\n"
    \o "help               Show this help message\n"
    \o "exit               Quit the chatbot"

\* the index of the first whitespace character of s, 0 when there is none
FirstSpace(s) ==
    IF \E i \in 1..Len(s) : IsSpaceCh(Ch(s, i))
    THEN CHOOSE i \in 1..Len(s) : IsSpaceCh(Ch(s, i)) /\ \A j \in 1..(i - 1) : ~IsSpaceCh(Ch(s, j))
    ELSE 0

\* line.split(maxsplit=1) for a stripped, non-empty line
Parts(line) ==
    IF FirstSpace(line) = 0 THEN <<line>>
    ELSE <<SubSeq(line, 1, FirstSpace(line) - 1),
           LStrip(SubSeq(line, FirstSpace(line) + 1, Len(line)))>>

\* cmd, arg = parts[0].lower(), parts[1]
Cmd(line) == Lower(Parts(line)[1])
Arg(line) == Parts(line)[2]

CliCommands == {"define", "Define", "describe", "lookup", "exit", "help"}

CliArgs == {"dog", "hot  dog", "Dog", "kill", "SELF-HARM", "skilled", "a bomb", "pornography",
            "cat.jpg", "cat.txt", "hate.png", "drug.JPG"}

\* what input() can return
Lines ==
    {"", "   ", "exit", " EXIT ", "help", "Help", "define", "describe "}
    \cup {c \o " " \o a : c \in CliCommands, a \in CliArgs}

IsRequest(line) == line # "" /\ Lower(line) \notin {"exit", "help"} /\ Len(Parts(line)) = 2

\* whether the line makes main call the handler of cmd
Reaches(line, cmd) == IsRequest(line) /\ Cmd(line) = cmd /\ is_safe_request(Arg(line))

Init ==
    /\ pc = "input"
    /\ fn = "main"
    /\ arg = ""
    /\ kb = NoKb
    /\ img = NoImg
    /\ net \in NetConfigs
    /\ ret = NoRet
    /\ frame = NoFrame
    /\ out = <<WELCOME>>
    /\ invoked = {}
    /\ remoteCalls = 0

\* line = input("> ").strip(); kb and img are what the collaborators answer to
\* the handler this line reaches, if any
ReadLine ==
    /\ pc = "input"
    /\ \E l \in Lines :
          /\ arg' = Strip(l)
          /\ kb' \in (IF Reaches(Strip(l), "define")
                      THEN KbAnswers(Arg(Strip(l)), MaxCliSenses) ELSE {NoKb})
          /\ img' \in (IF Reaches(Strip(l), "describe") THEN ImgEnvs ELSE {NoImg})
    /\ pc' = "line"
    /\ out' = <<>>
    /\ invoked' = {}
    /\ frame' = NoFrame
    /\ UNCHANGED <<fn, net, ret, remoteCalls>>

\* input() raises EOFError or KeyboardInterrupt
ReadInterrupted ==
    /\ pc = "input"
    /\ out' = <<"\nBye!">>
    /\ invoked' = {}
    /\ pc' = "exited"
    /\ UNCHANGED <<fn, arg, kb, img, net, ret, frame, remoteCalls>>

\* if not line: continue
EmptyLine ==
    /\ pc = "line" /\ arg = ""
    /\ pc' = "loop"
    /\ UNCHANGED <<fn, arg, kb, img, net, ret, frame, out, invoked, remoteCalls>>

ExitCommand ==
    /\ pc = "line" /\ arg # "" /\ Lower(arg) = "exit"
    /\ out' = <<"Bye!">>
    /\ pc' = "exited"
    /\ UNCHANGED <<fn, arg, kb, img, net, ret, frame, invoked, remoteCalls>>

HelpCommand ==
    /\ pc = "line" /\ arg # "" /\ Lower(arg) = "help"
    /\ out' = <<HELP_TEXT>>
    /\ pc' = "loop"
    /\ UNCHANGED <<fn, arg, kb, img, net, ret, frame, invoked, remoteCalls>>

\* len(parts) < 2
Usage ==
    /\ pc = "line" /\ arg # "" /\ Lower(arg) \notin {"exit", "help"}
    /\ Len(Parts(arg)) < 2
    /\ out' = <<"Usage: define <word> | describe <image>", "Type 'help' for more info.">>
    /\ pc' = "loop"
    /\ UNCHANGED <<fn, arg, kb, img, net, ret, frame, invoked, remoteCalls>>

GateRejects_Never(a) == FALSE

\* if not is_safe_request(arg)
GateRejects(a) == ~is_safe_request(a)

Refuse ==
    /\ pc = "line" /\ IsRequest(arg)
    /\ GateRejects(Arg(arg))
    /\ out' = <<get_refusal_message>>
    /\ pc' = "loop"
    /\ UNCHANGED <<fn, arg, kb, img, net, ret, frame, invoked, remoteCalls>>

\* result = define_word(arg); print(result). An exception of wn.synsets is caught
\* nowhere and ends the process.
Define ==
    /\ pc = "line" /\ IsRequest(arg)
    /\ ~GateRejects(Arg(arg))
    /\ Cmd(arg) = "define"
    /\ invoked' = invoked \cup {"define_word"}
    /\ IF kb.raises /\ NormalizeWord(Arg(arg)) # ""
       THEN /\ pc' = "crashed"
            /\ UNCHANGED <<out, frame>>
       ELSE /\ pc' = "loop"
            /\ out' = <<define_word(Arg(arg), kb.synsets)>>
            /\ frame' = define_word_locals(Arg(arg), kb.synsets)
    /\ UNCHANGED <<fn, arg, kb, img, net, ret, remoteCalls>>

\* result = describe_image(arg); print(result)
Describe ==
    /\ pc = "line" /\ IsRequest(arg)
    /\ ~GateRejects(Arg(arg))
    /\ Cmd(arg) = "describe"
    /\ invoked' = invoked \cup {"describe_image"}
    /\ pc' = "loop"
    /\ out' = <<describe_image(Arg(arg), img)>>
    /\ frame' = describe_image_locals(Arg(arg), img)
    /\ UNCHANGED <<fn, arg, kb, img, net, ret, remoteCalls>>

\* KeyboardInterrupt raised while define_word or describe_image runs: the call is
\* outside the try of the loop (which covers input() only), and the handlers of
\* image_bot catch Exception, which KeyboardInterrupt is not
HandlerInterrupted ==
    /\ pc = "line" /\ IsRequest(arg)
    /\ ~GateRejects(Arg(arg))
    /\ Cmd(arg) \in {"define", "describe"}
    /\ invoked' = invoked \cup {IF Cmd(arg) = "define" THEN "define_word" ELSE "describe_image"}
    /\ pc' = "crashed"
    /\ UNCHANGED <<fn, arg, kb, img, net, ret, frame, out, remoteCalls>>

UnknownCommand ==
    /\ pc = "line" /\ IsRequest(arg)
    /\ ~GateRejects(Arg(arg))
    /\ Cmd(arg) \notin {"define", "describe"}
    /\ out' = <<"Unknown command: '" \o Cmd(arg) \o "'. Type 'help' for options.">>
    /\ pc' = "loop"
    /\ UNCHANGED <<fn, arg, kb, img, net, ret, frame, invoked, remoteCalls>>

\* the end of an iteration: back to input(); what the iteration left behind is
\* dead and is cleared
LoopBack ==
    /\ pc = "loop"
    /\ pc' = "input"
    /\ arg' = ""
    /\ kb' = NoKb
    /\ img' = NoImg
    /\ frame' = NoFrame
    /\ out' = <<>>
    /\ invoked' = {}
    /\ UNCHANGED <<fn, net, ret, remoteCalls>>

Next ==
    \/ ReadLine
    \/ ReadInterrupted
    \/ EmptyLine
    \/ ExitCommand
    \/ HelpCommand
    \/ Usage
    \/ Refuse
    \/ Define
    \/ Describe
    \/ HandlerInterrupted
    \/ UnknownCommand
    \/ LoopBack

Spec == Init /\ [][Next]_vars

----------------------------------------------------------------------------
(* Properties                                                              *)

Returned(f) == pc = "return" /\ fn = f

\* the iteration of main has handled its line
Handled == pc \in {"loop", "exited", "crashed"}

\* C1: in the loop of main, a line "<command> <argument>" reaches define_word or
\* describe_image only if is_safe_request(argument) holds; when it does not hold,
\* no handler is called for the line, the refusal message is what is printed, and
\* the loop continues (it neither exits nor crashes).
C1_GateBeforeDispatch ==
    /\ invoked # {} => (IsRequest(arg) /\ is_safe_request(Arg(arg)))
    /\ (Handled /\ IsRequest(arg) /\ ~is_safe_request(Arg(arg)))
          => (pc = "loop" /\ invoked = {} /\ out = <<get_refusal_message>>)

C1_Witness ==
    /\ pc = "loop"
    /\ arg = "define SELF-HARM"
    /\ ~is_safe_request(Arg(arg))
    /\ invoked = {}
    /\ out = <<get_refusal_message>>

\* term occurs in text at index i, in any letter case
OccursAt(term, text, i) ==
    /\ i + Len(term) - 1 <= Len(text)
    /\ UpperCh(Ch(text, i)) = UpperCh(Head(term))
    /\ Upper(SubSeq(text, i, i + Len(term) - 1)) = Upper(term)

Occurs(term, text) == \E i \in 1..Len(text) : OccursAt(term, text, i)

\* term occurs in text as a word of its own: no word character right before it
\* and none right after it
Standalone(term, text) ==
    \E i \in 1..Len(text) :
        /\ (i = 1 \/ ~IsWordCh(Ch(text, i - 1)))
        /\ (i + Len(term) > Len(text) \/ ~IsWordCh(Ch(text, i + Len(term))))
        /\ OccursAt(term, text, i)

\* C2: a text in which some blocked term (the hyphenated "self-harm" included)
\* occurs, in any letter case, as a standalone word is rejected by
\* is_safe_request.
C2_StandaloneTermBlocked ==
    (Returned("is_safe_request") /\ \E t \in BlockedSet : Standalone(t, arg))
        => ret.val = FALSE

C2_Witness ==
    /\ Returned("is_safe_request")
    /\ arg = "-SELF-HARM "
    /\ Standalone("self-harm", arg)
    /\ ret.val = FALSE

\* C3 as stated: a text in which a blocked term occurs only inside longer words
\* is accepted by is_safe_request.
C3_EmbeddedTermSafe_Original ==
    (Returned("is_safe_request") /\ \E t \in BlockedSet : Occurs(t, arg) /\ ~Standalone(t, arg))
        => ret.val = TRUE

\* C3, amended: a text in which a blocked term occurs only inside longer words,
\* and in which no blocked term occurs as a standalone word, is accepted by
\* is_safe_request.
C3_EmbeddedTermSafe ==
    (/\ Returned("is_safe_request")
     /\ \E t \in BlockedSet : Occurs(t, arg) /\ ~Standalone(t, arg)
     /\ \A u \in BlockedSet : ~Standalone(u, arg))
        => ret.val = TRUE

C3_Witness ==
    /\ Returned("is_safe_request")
    /\ arg = "-Skilled "
    /\ Occurs("kill", arg) /\ ~Standalone("kill", arg)
    /\ ret.val = TRUE

SeqHasNoDuplicate(seq) == \A i, j \in 1..Len(seq) : seq[i] = seq[j] => i = j

\* C4 as stated: no synonym of the entry of define_word or define_word_json
\* equals the normalized query word, letter case ignored.
C4_SynonymsExcludeQuery ==
    /\ (Returned("define_word") /\ ret.kind = "str" /\ frame.found)
          => \A i \in 1..Len(frame.synonyms) : Upper(frame.synonyms[i]) # Upper(frame.word)
    /\ (Returned("define_word_json") /\ ret.kind = "dict")
          => \A i \in 1..Len(ret.val.synonyms) :
                 Upper(ret.val.synonyms[i]) # Upper(ret.val.word)

\* C5: the entry of define_word and of define_word_json has at most 3 synonyms,
\* at most 2 examples, and no synonym twice, whether or not the synonyms were
\* extended from the secondary senses.
C5_CapsAndNoDuplicates ==
    /\ (Returned("define_word") /\ ret.kind = "str" /\ frame.found)
          => /\ Len(frame.synonyms) <= 3
             /\ Len(frame.examples) <= 2
             /\ SeqHasNoDuplicate(frame.synonyms)
    /\ (Returned("define_word_json") /\ ret.kind = "dict")
          => /\ Len(ret.val.synonyms) <= 3
             /\ Len(ret.val.examples) <= 2
             /\ SeqHasNoDuplicate(ret.val.synonyms)

\* the extension branch ran on more than three distinct candidates, one of them
\* offered twice
C5_Witness ==
    /\ Returned("define_word") /\ ret.kind = "str" /\ frame.found
    /\ Len(kb.synsets) >= 3
    /\ kb.synsets[1].lemmas = <<"dog">>
    /\ frame.synonyms = <<"canine", "hot dog", "cur">>
    /\ Len(frame.examples) = 2

\* str.title() of the labels of LABELS that _LABEL_INFO does not hold
TitleCased(label) ==
    CASE label = "goldfish" -> "Goldfish"
      [] label = "great white shark" -> "Great White Shark"
      [] label = "jack-o'-lantern" -> "Jack-O'-Lantern"

\* C6: for the classifier's top-1 (label, confidence): below 0.15 the entry is
\* "unknown object" with the two fixed messages, whatever the label table holds,
\* and keeps the real confidence; from 0.15 on the entry has the classifier's
\* label and the table's (description, meaning) for a label of the table, the
\* synthesized pair for any other label.
C6_ConfidenceThreshold ==
    (Returned("describe_image") /\ frame.path = "entry") =>
        LET label == LABELS[img.pred_idx + 1]
            e == frame.entry
        IN  /\ e.confidence = img.confidence
            /\ img.confidence < 15000 =>
                  /\ e.label = "unknown object"
                  /\ e.description =
                        "The classifier could not identify this image with high confidence."
                  /\ e.meaning = "Try uploading a clearer photo or a different angle."
            /\ img.confidence >= 15000 =>
                  /\ e.label = label
                  /\ label \in DOMAIN LABEL_INFO =>
                        <<e.description, e.meaning>> = LABEL_INFO[label]
                  /\ label \notin DOMAIN LABEL_INFO =>
                        /\ e.description = "An image likely depicting: " \o label \o "."
                        /\ e.meaning = "'" \o TitleCased(label)
                              \o "' is a concept or object recognized by the image classifier."
                              \o " Consult a reference for more context."

C6_Witness ==
    /\ Returned("describe_image") /\ frame.path = "entry"
    /\ LABELS[img.pred_idx + 1] = "tabby"
    /\ img.confidence = 14999
    /\ frame.entry.label = "unknown object"
    /\ frame.entry.confidence = 14999

\* C7 as stated: with online mode configured, a request that passed the safety
\* gate and reached its handler has attempted the remote call.
C7_RemoteAttemptedFirst ==
    (Handled /\ invoked # {} /\ is_online_mode(net)) => remoteCalls > 0

WORD_FIELDS == {"word", "part_of_speech", "pronunciation", "definition", "examples", "synonyms"}

\* the lines "- <example>" of an entry, trimmed and joined by single spaces
ExamplesContent(examples) ==
    IF examples = <<>> THEN "- (no example available)"
    ELSE Join(" ", [i \in 1..Len(examples) |-> Strip("- " \o examples[i])])

\* C8: parsing a formatted entry with the bracket-line parser gives exactly one
\* key per field, whose value is the field's text, trimmed, its lines joined by
\* single spaces; the parsed "word" is the normalized query word. (Field values
\* hold no line break.)
C8_RoundTrip ==
    /\ (Returned("define_word") /\ ret.kind = "str") =>
          LET d == parse_entry(ret.val)
          IN  /\ DOMAIN d = WORD_FIELDS
              /\ d["word"] = NormalizeWord(arg)
              /\ frame.found =>
                    /\ d["part_of_speech"] = frame.pos
                    /\ d["pronunciation"] = "N/A"
                    /\ d["definition"] = Strip(frame.definition)
                    /\ d["examples"] = ExamplesContent(frame.examples)
                    /\ d["synonyms"] =
                          (IF frame.synonyms = <<>> THEN "(none)"
                           ELSE Join(", ", frame.synonyms))
    /\ Returned("describe_image_json") =>
          IF frame.path = "entry"
          THEN /\ DOMAIN ret.val = {"label", "description", "meaning", "confidence"}
               /\ ret.val["label"] = frame.entry.label
               /\ ret.val["description"] = frame.entry.description
               /\ ret.val["meaning"] = frame.entry.meaning
               /\ ret.val["confidence"] = format_percent(frame.entry.confidence)
          ELSE /\ DOMAIN ret.val = {"label", "description", "meaning"}
               /\ ret.val["label"] = "unknown"
               /\ ret.val["description"] = frame.message
               /\ ret.val["meaning"] = "N/A"

C8_Witness ==
    /\ Returned("define_word") /\ ret.kind = "str" /\ frame.found
    /\ arg = " Dog "
    /\ frame.definition = "[slang] a chap "
    /\ Len(frame.examples) = 2
    /\ parse_entry(ret.val)["word"] = "dog"
    /\ parse_entry(ret.val)["examples"] = "- e one - [e two]"

\* C9: when the knowledge base answers no sense, or the normalized word is empty,
\* define_word raises nothing and returns the not-found entry, a block of the
\* same six sections as any entry: part_of_speech "unknown", pronunciation "N/A",
\* the fixed fallback definition, no example and no synonym; define_word_json
\* returns the same fields with empty lists.
C9_NotFoundEntry ==
    /\ (Returned("define_word") /\ ~kb.raises
            /\ (kb.synsets = <<>> \/ NormalizeWord(arg) = "")) =>
          /\ ret.kind = "str"
          /\ ~frame.found
          /\ LET d == parse_entry(ret.val)
             IN  /\ DOMAIN d = WORD_FIELDS
                 /\ d["word"] = NormalizeWord(arg)
                 /\ d["part_of_speech"] = "unknown"
                 /\ d["pronunciation"] = "N/A"
                 /\ d["definition"] = "No entry found. Check spelling or try a simpler term."
                 /\ d["examples"] = "- (none)"
                 /\ d["synonyms"] = "(none)"
    /\ (Returned("define_word_json") /\ ~kb.raises /\ kb.synsets = <<>>) =>
          /\ ret.kind = "dict"
          /\ ret.val = [word |-> NormalizeWord(arg),
                        part_of_speech |-> "unknown",
                        pronunciation |-> "N/A",
                        definition |-> "No entry found. Check spelling or try a simpler term.",
                        examples |-> <<>>,
                        synonyms |-> <<>>]

C9_Witness ==
    /\ Returned("define_word") /\ ~kb.raises
    /\ arg = "hot dog" /\ kb.synsets = <<>>
    /\ ret.kind = "str"
    /\ parse_entry(ret.val)["definition"] = NOT_FOUND_DEFINITION

RECURSIVE SectionsOf(_)
SectionsOf(lines) ==
    IF lines = <<>> THEN <<>>
    ELSE (IF IsSectionLine(lines[1]) THEN <<StripBrackets(lines[1])>> ELSE <<>>)
         \o SectionsOf(Tail(lines))

\* the names of the "[name]" lines of a text block, in order
Sections(text) == SectionsOf(SplitLines(text))

WordSections ==
    <<"word", "part_of_speech", "pronunciation", "definition", "examples", "synonyms">>

C10_WordSections ==
    (Returned("define_word") /\ ret.kind = "str") => Sections(ret.val) = WordSections

\* C10 as stated: every block of define_word has the six word sections in order,
\* and every block of describe_image, on any path, has the sections label,
\* description, meaning, confidence in order.
C10_FixedSections_Original ==
    /\ C10_WordSections
    /\ Returned("describe_image") =>
          Sections(ret.val) = <<"label", "description", "meaning", "confidence">>

\* C10, amended: every block of define_word has the six word sections in order;
\* a block of describe_image has the sections label, description, meaning,
\* confidence in order on the success and low-confidence paths, and the sections
\* label, description, meaning in order (no confidence) on the rejected-input,
\* decode-failure and inference-failure paths.
C10_FixedSections ==
    /\ C10_WordSections
    /\ Returned("describe_image") =>
          Sections(ret.val) =
             (IF frame.path = "entry"
              THEN <<"label", "description", "meaning", "confidence">>
              ELSE <<"label", "description", "meaning">>)

C10_Witness ==
    /\ Returned("describe_image")
    /\ frame.path = "decode"
    /\ Sections(ret.val) = <<"label", "description", "meaning">>


----------------------------------------------------------------------------
\* the process has left the loop of main
Terminated == pc \in {"exited", "crashed"}

\* the last thing printed is the farewell
FarewellPrinted == out # <<>> /\ out[Len(out)] \in {"Bye!", "\nBye!"}

\* C11 as stated: main leaves its loop only through the exit command, end of
\* input or an interrupt, each time after printing the farewell; no failure or
\* interrupt during a define or describe request ends the loop without it.
C11_FarewellBeforeTermination ==
    Terminated => (pc = "exited" /\ FarewellPrinted)


----------------------------------------------------------------------------
\* define_word or define_word_json has returned an entry built from senses
EntryReturned ==
    /\ pc = "return" /\ fn \in {"define_word", "define_word_json"}
    /\ ret.kind # "raise"
    /\ kb.synsets # <<>>
    /\ fn = "define_word" => frame.found

\* the examples and the synonyms of the returned entry
EntryExamples == IF fn = "define_word" THEN frame.examples ELSE ret.val.examples
EntrySynonyms == IF fn = "define_word" THEN frame.synonyms ELSE ret.val.synonyms

Elems(seq) == {seq[i] : i \in 1..Len(seq)}

\* the senses a word entry may draw on: the primary and the next three
FirstFour == Take(kb.synsets, 4)

\* the synonyms a sense offers for the query: its lemma names other than the query
\* word (compared without case), written with spaces
Eligible(sense) ==
    {Replace(sense.lemmas[i], "_", " ") :
        i \in {j \in 1..Len(sense.lemmas) : Lower(sense.lemmas[j]) # NormalizeWord(arg)}}

\* C12 as stated: whenever a list is below its cap (2 examples, 3 synonyms), no
\* unused example or eligible synonym remains in the first four senses.
C12_DrainUntilCap_Original ==
    EntryReturned =>
        /\ Len(EntryExamples) < ExampleLimit =>
               \A i \in 1..Len(FirstFour) : Elems(FirstFour[i].examples) \subseteq Elems(EntryExamples)
        /\ Len(EntrySynonyms) < SynLimit =>
               \A i \in 1..Len(FirstFour) : Eligible(FirstFour[i]) \subseteq Elems(EntrySynonyms)

\* C12, amended: the examples come from one sense and the secondary senses add
\* synonyms only when the primary yields fewer than 2. The examples are empty
\* only if none of the first four senses has an example, and when fewer than 2
\* they are all the examples of the first of those senses that has any. When the
\* synonyms are fewer than 3, the primary sense has no unused eligible synonym,
\* and if the primary yields fewer than 2, none of the first four senses has.
C12_DrainUntilCap ==
    EntryReturned =>
        /\ EntryExamples = <<>> =>
               \A i \in 1..Len(FirstFour) : FirstFour[i].examples = <<>>
        /\ (EntryExamples # <<>> /\ Len(EntryExamples) < ExampleLimit) =>
               \E i \in 1..Len(FirstFour) :
                   /\ FirstFour[i].examples = EntryExamples
                   /\ \A j \in 1..(i - 1) : FirstFour[j].examples = <<>>
        /\ Len(EntrySynonyms) < SynLimit =>
               /\ Eligible(FirstFour[1]) \subseteq Elems(EntrySynonyms)
               /\ Cardinality(Eligible(FirstFour[1])) < 2 =>
                      \A i \in 1..Len(FirstFour) : Eligible(FirstFour[i]) \subseteq Elems(EntrySynonyms)

\* the primary has no example and no synonym but the query word; the third sense
\* supplies the one example and the two synonyms, both lists one short of their
\* cap, and the fifth sense is not drawn on
C12_Witness ==
    /\ EntryReturned /\ fn = "define_word"
    /\ arg = " Dog "
    /\ Len(kb.synsets) = 5
    /\ kb.synsets[1].pos = "n" /\ kb.synsets[2].pos = "n"
    /\ kb.synsets[3].pos = "v" /\ kb.synsets[4].pos = "n"
    /\ kb.synsets[5].pos = "s"
    /\ EntryExamples = <<"dog the steps">>
    /\ EntrySynonyms = <<"hot dog", "hound">>


----------------------------------------------------------------------------
\* seq holds the first min(n, Len(from)) elements of from
IsPrefixOfLen(seq, from, n) ==
    /\ Len(seq) = (IF Len(from) < n THEN Len(from) ELSE n)
    /\ \A k \in 1..Len(seq) : seq[k] = from[k]

\* the secondary senses (senses[1..3]) that have an example, as positions in the
\* list the knowledge base answered
SecondaryWithExamples == {i \in 2..Len(FirstFour) : kb.synsets[i].examples # <<>>}

\* C13: the examples of an entry (define_word and define_word_json alike) are the
\* first up-to-2 examples of the primary sense when it has any; otherwise the
\* first up-to-2 examples of the first of senses[1..3] that has any; otherwise
\* empty. Two senses are never combined and senses beyond index 3 are not read.
C13_ExamplesSelection ==
    EntryReturned =>
        IF kb.synsets[1].examples # <<>>
        THEN IsPrefixOfLen(EntryExamples, kb.synsets[1].examples, 2)
        ELSE IF SecondaryWithExamples # {}
        THEN \E i \in SecondaryWithExamples :
                 /\ \A j \in SecondaryWithExamples : i <= j
                 /\ IsPrefixOfLen(EntryExamples, kb.synsets[i].examples, 2)
        ELSE EntryExamples = <<>>

\* the primary and the next sense have no example; the third sense has three and
\* the fourth one: the entry has the first two of the third sense
C13_Witness ==
    /\ EntryReturned /\ fn = "define_word_json"
    /\ Len(kb.synsets) = 4
    /\ kb.synsets[1].examples = <<>> /\ kb.synsets[2].examples = <<>>
    /\ kb.synsets[3].examples = <<"e one", "[e two]", "e three ">>
    /\ kb.synsets[4].examples = <<"dog the steps">>
    /\ EntryExamples = <<"e one", "[e two]">>


----------------------------------------------------------------------------
\* the synonyms of a sense as the claim describes them: its lemma names written
\* with spaces, without the query word, sorted, every one of them (no cap)
SenseSynonyms(sense) ==
    Sorted({r \in {Replace(sense.lemmas[i], "_", " ") : i \in 1..Len(sense.lemmas)} :
               Lower(r) # NormalizeWord(arg)})

\* the synonyms of senses[k] when the knowledge base answered that many senses
SecondarySynonyms(k) ==
    IF k + 1 <= Len(kb.synsets) THEN SenseSynonyms(kb.synsets[k + 1]) ELSE <<>>

RECURSIVE KeepFirst(_)
\* seq without the elements that occur earlier in it
KeepFirst(seq) ==
    IF seq = <<>> THEN <<>>
    ELSE LET front == SubSeq(seq, 1, Len(seq) - 1)
             last == seq[Len(seq)]
         IN  IF \E j \in 1..Len(front) : front[j] = last
             THEN KeepFirst(front)
             ELSE Append(KeepFirst(front), last)

\* the synonyms list the claim describes, the secondary senses contributing
\* without a cap of their own
SelectedSynonyms ==
    LET primary == Take(SenseSynonyms(kb.synsets[1]), 3)
    IN  IF Len(primary) < 2
        THEN Take(KeepFirst(primary \o SecondarySynonyms(1) \o SecondarySynonyms(2)
                                   \o SecondarySynonyms(3)), 3)
        ELSE primary

\* C14 as stated: the synonyms of an entry are the primary sense's synonyms
\* (sorted, without the query word, at most 3); if and only if those are fewer
\* than 2, the synonyms of senses[1..3] without the query word are appended in
\* sense order, duplicates after the first occurrence are dropped and the first
\* 3 are kept; the cap of 3 on each secondary sense does not change the list.
C14_SynonymsSelection ==
    EntryReturned => EntrySynonyms = SelectedSynonyms


----------------------------------------------------------------------------
\* the lines a text block shows for a list of examples: one per example, or one of
\* the two placeholder lines when there is none
ExampleLines(examples) ==
    IF examples = <<>>
    THEN {<<"  - (none)">>, <<"  - (no example available)">>}
    ELSE {[i \in 1..Len(examples) |-> "  - " \o examples[i]]}

\* text is the six-section block showing the field values of the dict d
Describes(text, d) ==
    \E lines \in ExampleLines(d.examples) :
        text = Join("\n", <<"[word]", "  " \o d.word,
                            "[part_of_speech]", "  " \o d.part_of_speech,
                            "[pronunciation]", "  " \o d.pronunciation,
                            "[definition]", "  " \o d.definition,
                            "[examples]">>
                          \o lines
                          \o <<"[synonyms]",
                               "  " \o (IF d.synonyms = <<>> THEN "(none)"
                                        ELSE Join(", ", d.synonyms))>>)

\* C15 as stated: for every word and every response of the knowledge base,
\* define_word and define_word_json describe the same entry: the text block of
\* define_word shows exactly the word, part_of_speech, pronunciation, definition,
\* examples and synonyms of the dict of define_word_json (a placeholder line for
\* an empty list), and one raises only if the other does; the empty and the
\* whitespace-only word included, where only define_word_json queries the
\* knowledge base.
C15_JsonMatchesText ==
    /\ Returned("define_word_json") =>
           IF ret.kind = "raise"
           THEN kb.raises /\ NormalizeWord(arg) # ""
           ELSE /\ ret.kind = "dict"
                /\ Describes(define_word(arg, kb.synsets), ret.val)
    /\ Returned("define_word") =>
           IF ret.kind = "raise"
           THEN kb.raises
           ELSE /\ ret.kind = "str"
                /\ ~kb.raises
                /\ Describes(ret.val, define_word_json(arg, kb.synsets))

=============================================================================
